---------------------------- MODULE Spec2Model ----------------------------
(***************************************************************************)
(* A model of src/handler.py: the ComfyUI worker's job handler.            *)
(*                                                                         *)
(* The handler is one sequential function.  Each action below is one step  *)
(* of it, cut at the calls to the outside world (HTTP requests, websocket  *)
(* reads, the object store), whose answers are the inputs drawn with \E.   *)
(* pc is the handler's position; "done" is a return, "raised" an exception *)
(* that left handler().                                                    *)
(***************************************************************************)
EXTENDS Naturals, Sequences, FiniteSets

(***************************************************************************)
(* Program constants and the bounds of the model.                          *)
(***************************************************************************)
COMFY_API_AVAILABLE_MAX_RETRIES == 500
WEBSOCKET_RECONNECT_ATTEMPTS == 5

\* the largest number of nodes in the outputs mapping of a history record
MaxNodes == 2
\* the largest number of image descriptors in one history record
MaxArtifacts == 2
\* the largest number of entries of a media list given to validate_input alone
MaxItems == 2
\* up to where the failed handshakes of one job are counted
MaxTotal == 6

(***************************************************************************)
(* Python values.  A job payload is None, a dict or a str; a str carries   *)
(* what json.loads makes of it.  A document is the decoded shape.          *)
(*   doc.t        "dict", "list", "num" or "null"                          *)
(*   doc.workflow whether the key 'workflow' is present and not null       *)
(*   doc.media    "absent", "notlist" or "list"; doc.items is that list    *)
(* A media entry is                                                        *)
(*   t      "dict", "str" (a string) or "num" (not a container)            *)
(*   name, media  for a dict: the key is present; for a str: the word is   *)
(*                a substring of it                                        *)
(*   type   the value under 'type': "base64", "web", "s3", "bogus", or     *)
(*          "absent" when the key is missing                               *)
(*   b64ok  whether the payload decodes as base64                          *)
(***************************************************************************)
Entry(t, name, media, type, b64ok) ==
    [t |-> t, name |-> name, media |-> media, type |-> type, b64ok |-> b64ok]

Doc(t, workflow, media, items) ==
    [t |-> t, workflow |-> workflow, media |-> media, items |-> items]

NoDoc == Doc("null", FALSE, "absent", <<>>)

\* job["input"]: form is "none", "dict" or "str"
Payload(form, json, doc) == [form |-> form, json |-> json, doc |-> doc]

GoodEntry == Entry("dict", TRUE, TRUE, "base64", TRUE)
UntypedEntry == Entry("dict", TRUE, TRUE, "absent", TRUE)
WebEntry == Entry("dict", TRUE, TRUE, "web", TRUE)
S3Entry == Entry("dict", TRUE, TRUE, "s3", TRUE)
BogusEntry == Entry("dict", TRUE, TRUE, "bogus", TRUE)
BadB64Entry == Entry("dict", TRUE, TRUE, "base64", FALSE)
NamelessEntry == Entry("dict", FALSE, TRUE, "base64", TRUE)
MedialessEntry == Entry("dict", TRUE, FALSE, "base64", TRUE)
\* the string "name and media": both words are substrings of it
WordyEntry == Entry("str", TRUE, TRUE, "absent", FALSE)
NumEntry == Entry("num", FALSE, FALSE, "absent", FALSE)

\* the payloads a run of the handler is started with
JobInputs ==
    { Payload("none", "n/a", NoDoc),
      Payload("str", "invalid", NoDoc),
      Payload("str", "valid", Doc("list", FALSE, "absent", <<>>)),
      Payload("str", "valid", Doc("dict", TRUE, "absent", <<>>)),
      Payload("dict", "n/a", Doc("dict", FALSE, "list", <<NamelessEntry>>)),
      Payload("dict", "n/a", Doc("dict", TRUE, "absent", <<>>)),
      Payload("dict", "n/a", Doc("dict", TRUE, "notlist", <<>>)),
      Payload("dict", "n/a", Doc("dict", TRUE, "list", <<MedialessEntry>>)),
      Payload("dict", "n/a", Doc("dict", TRUE, "list", <<NumEntry>>)),
      Payload("dict", "n/a", Doc("dict", TRUE, "list", <<WordyEntry>>)),
      Payload("dict", "n/a", Doc("dict", TRUE, "list", <<GoodEntry, UntypedEntry>>)),
      Payload("dict", "n/a", Doc("dict", TRUE, "list", <<WebEntry, S3Entry>>)),
      Payload("dict", "n/a", Doc("dict", TRUE, "list", <<BadB64Entry, BogusEntry>>)) }

\* the string "picture": neither word is a substring of it
PlainEntry == Entry("str", FALSE, FALSE, "absent", FALSE)

\* the shapes of media entries validate_input is tried on
EntryShapes ==
    { GoodEntry, UntypedEntry, NamelessEntry, MedialessEntry, WordyEntry, PlainEntry,
      NumEntry }

\* the lists of at most n entries
EntryLists(n) == UNION { [1..k -> EntryShapes] : k \in 0..n }

\* the decoded shapes validate_input is tried on: a list, a number, and the
\* objects with or without 'workflow', with every kind of 'media'
Docs ==
    { Doc("list", FALSE, "absent", <<>>), Doc("num", FALSE, "absent", <<>>) }
    \cup { Doc("dict", w, m, <<>>) : w \in BOOLEAN, m \in {"absent", "notlist"} }
    \cup { Doc("dict", w, "list", items) : w \in BOOLEAN, items \in EntryLists(MaxItems) }

\* how a decoded value is given when it is not given as a string: form
\* "other" is a value that is neither None, nor a str, nor a dict
DirectForm(d) == IF d.t = "dict" THEN "dict" ELSE "other"

\* the payloads validate_input is tried on: None, an undecodable string, and
\* every document both as itself and as the string that encodes it
Payloads ==
    { Payload("none", "n/a", NoDoc), Payload("str", "invalid", NoDoc) }
    \cup { Payload(DirectForm(d), "n/a", d) : d \in Docs }
    \cup { Payload("str", "valid", d) : d \in Docs }

(***************************************************************************)
(* validate_input                                                          *)
(***************************************************************************)
\* "name" in media and "media" in media, for one entry: "raise" is the
\* TypeError of `in` on a value that is no container
EntryHasKeys(e) ==
    IF e.t = "num" THEN "raise"
    ELSE IF e.name /\ e.media THEN "true" ELSE "false"

\* all(... for media in media_list): stops at the first entry that is false
RECURSIVE AllHaveKeys(_)
AllHaveKeys(items) ==
    IF items = <<>> THEN "true"
    ELSE LET h == EntryHasKeys(Head(items))
         IN  IF h = "true" THEN AllHaveKeys(Tail(items)) ELSE h

Validated(raised, error, media) ==
    [raised |-> raised, error |-> error, media |-> media]

\* checks that look at 'media' before they look at 'workflow'
ValidateDoc_MediaFirst(d) ==
    IF d.t # "dict" THEN Validated(TRUE, "AttributeError", <<>>)
    ELSE IF d.media = "notlist"
         THEN Validated(FALSE, "'media' must be a list of objects with 'name' and 'media' keys", <<>>)
    ELSE IF d.media = "list" /\ AllHaveKeys(d.items) = "raise"
         THEN Validated(TRUE, "TypeError", <<>>)
    ELSE IF d.media = "list" /\ AllHaveKeys(d.items) = "false"
         THEN Validated(FALSE, "'media' must be a list of objects with 'name' and 'media' keys", <<>>)
    ELSE IF ~d.workflow THEN Validated(FALSE, "Missing 'workflow' parameter", <<>>)
    ELSE Validated(FALSE, "", IF d.media = "list" THEN d.items ELSE <<>>)

\* the checks of validate_input on the decoded value d
ValidateDoc(d) ==
    IF d.t # "dict" THEN Validated(TRUE, "AttributeError", <<>>)
    ELSE IF ~d.workflow THEN Validated(FALSE, "Missing 'workflow' parameter", <<>>)
    ELSE IF d.media = "absent" THEN Validated(FALSE, "", <<>>)
    ELSE IF d.media = "notlist"
         THEN Validated(FALSE, "'media' must be a list of objects with 'name' and 'media' keys", <<>>)
    ELSE LET a == AllHaveKeys(d.items)
         IN  IF a = "raise" THEN Validated(TRUE, "TypeError", <<>>)
             ELSE IF a = "false"
                  THEN Validated(FALSE, "'media' must be a list of objects with 'name' and 'media' keys", <<>>)
             ELSE Validated(FALSE, "", d.items)

\* a validate_input that does not decode a string payload: it goes on to
\* call .get on the str
validate_input_NoDecode(job_input) ==
    IF job_input.form = "none" THEN Validated(FALSE, "Please provide input", <<>>)
    ELSE IF job_input.form = "str" THEN Validated(TRUE, "AttributeError", <<>>)
    ELSE ValidateDoc(job_input.doc)

\* error = "" is Python's None; raised says an exception left the function
validate_input(job_input) ==
    IF job_input.form = "none" THEN Validated(FALSE, "Please provide input", <<>>)
    ELSE IF job_input.form = "str" /\ job_input.json = "invalid"
         THEN Validated(FALSE, "Invalid JSON format in input", <<>>)
    ELSE ValidateDoc(job_input.doc)


(***************************************************************************)
(* The state of one invocation of handler(job).                            *)
(***************************************************************************)
VARIABLES
    pc,             \* the handler's position
    job_input,      \* job["input"]
    bucket,         \* whether os.environ has BUCKET_ENDPOINT_URL
    input_media,    \* validated_data["media"] (None is the empty list)
    tries,          \* check_server: probes made so far (its loop variable)
    probed,         \* check_server: how its last probe ended, "none" before
    upIdx,          \* upload_media: items of media_list handled so far
    responses,      \* upload_media: its list of successes
    upload_errors,  \* upload_media: its list of failures
    client_id,      \* the uuid of this invocation, "none" before it is drawn
    ws_url,         \* the client id inside ws_url
    ws,             \* the WebSocket object the handler holds
    openSockets,    \* websocket connections of this invocation that are open
    prompt_id,      \* the id the submission returned, "none" before
    queued,         \* how POST /prompt ended, "none" before it was made
    queuedAs,       \* the client id POST /prompt was made with, "none" before
    recvEvent,      \* how the last ws.recv() ended
    out,            \* the last frame ws.recv() returned
    execution_done,
    errors,         \* the handler's list of errors and warnings
    output_data,    \* the handler's list of published media
    attempt,        \* _attempt_websocket_reconnect: its loop variable
    srv_status,     \* _attempt_websocket_reconnect: the last probe's answer
    rcProbes,       \* calls of _comfy_server_status() in this run of the protocol
    rcHandshakes,   \* calls of new_ws.connect() in this run of the protocol
    rcTotal,        \* handshakes that failed since the monitoring loop began, in
                    \* all runs of the protocol, counted up to MaxTotal; 0 again
                    \* once a frame ends the loop
    history,        \* what GET /history answered, as far as it was read
    fetchLog,       \* the calls of get_image_data so far: the artifact asked
                    \* for, and whether the engine answered with its bytes
    tempFiles,      \* the temporary files that exist
    temp_file_path, \* the local of that name, NoPath while unassigned
    terminal,       \* the engine's terminal event for this job: "none" while
                    \* it has not emitted one, "sent" when it wrote it to an open
                    \* websocket, "lost" when no websocket was open at that time
    result          \* what handler returned

inputVars == <<job_input, bucket>>
uploadVars == <<input_media, tries, probed, upIdx, responses, upload_errors>>
wsVars == <<client_id, ws_url, ws, openSockets>>
monVars == <<prompt_id, queued, queuedAs, recvEvent, out, execution_done>>
rcVars == <<attempt, srv_status, rcProbes, rcHandshakes, rcTotal>>
colVars == <<history, fetchLog, tempFiles, temp_file_path, output_data>>
vars == <<pc, inputVars, uploadVars, wsVars, monVars, rcVars, colVars, errors, terminal,
          result>>

\* uuid.uuid4() draws from these: one invocation draws one client id
ClientIds == {"c1"}
\* the ids of the engine's prompts: "p1" is the one it gives to this job's
\* submission, "p2" is another job's
PromptIds == {"p1", "p2"}
JobPromptIds == {"p1"}

\* one line of errors, of upload_errors or of responses: what it says and
\* the item or artifact it is about (<<0, 0>> when it is about none)
Msg(kind, at) == [kind |-> kind, at |-> at]

Result(keys, error, details, media, errs, status) ==
    [keys |-> keys, error |-> error, details |-> details, media |-> media,
     errors |-> errs, status |-> status]

NoResult == Result({}, "", <<>>, <<>>, <<>>, "")
\* {"error": msg}
Error(msg) == Result({"error"}, msg, <<>>, <<>>, <<>>, "")
\* {"error": msg, "details": details}
ErrorDetails(msg, details) == Result({"error", "details"}, msg, details, <<>>, <<>>, "")

NoSocket == [made |-> FALSE, connected |-> FALSE, url |-> "none"]
NoFrame == [frame |-> "none", json |-> "n/a", type |-> "n/a", node |-> "n/a", pid |-> "n/a"]
\* no artifact: the value of temp_file_path before its first assignment
NoPath == <<0, 0>>
\* pid is the prompt id the history was asked for
NoHistory ==
    [fetched |-> FALSE, found |-> FALSE, empty |-> TRUE, outputs |-> <<>>, pid |-> "none"]

\* the state handler() starts in, but for its payload
Start ==
    /\ pc = "validate"
    /\ bucket \in BOOLEAN
    /\ input_media = <<>>
    /\ tries = 0
    /\ probed = "none"
    /\ upIdx = 0
    /\ responses = <<>>
    /\ upload_errors = <<>>
    /\ client_id = "none"
    /\ ws_url = "none"
    /\ ws = NoSocket
    /\ openSockets = 0
    /\ prompt_id = "none"
    /\ queued = "none"
    /\ queuedAs = "none"
    /\ recvEvent = "none"
    /\ out = NoFrame
    /\ execution_done = FALSE
    /\ errors = <<>>
    /\ output_data = <<>>
    /\ attempt = 0
    /\ srv_status = "none"
    /\ rcProbes = 0
    /\ rcHandshakes = 0
    /\ rcTotal = 0
    /\ terminal = "none"
    /\ history = NoHistory
    /\ fetchLog = <<>>
    /\ tempFiles = {}
    /\ temp_file_path = NoPath
    /\ result = NoResult

Init ==
    /\ job_input \in JobInputs
    /\ Start

(***************************************************************************)
(* Leaving handler().                                                      *)
(***************************************************************************)
\* a finally clause that leaves the connection as it is
Finally_NoClose(w, n) == [ws |-> w, open |-> n]

\* the finally clause: if ws and ws.connected: ws.close(); n is the number
\* of open connections
Finally(w, n) ==
    IF w.made /\ w.connected
    THEN [ws |-> [w EXCEPT !.connected = FALSE], open |-> n - 1]
    ELSE [ws |-> w, open |-> n]

\* a return before the try statement
Return(r) ==
    /\ pc' = "done"
    /\ result' = r

\* a return from inside the try statement, or from one of its except
\* clauses: the finally clause runs first
ReturnInTry(r) ==
    /\ pc' = "done"
    /\ result' = r
    /\ ws' = Finally(ws, openSockets).ws
    /\ openSockets' = Finally(ws, openSockets).open
    /\ UNCHANGED <<client_id, ws_url>>

\* except clauses that return what was published so far next to the error
ExceptResult_KeepsMedia(exc) ==
    Result({"error", "media"}, "An unexpected error occurred", <<>>, output_data, <<>>, "")

\* the except clauses of handler's try statement, by the class of exception
ExceptResult(exc) ==
    CASE exc = "WebSocketException" -> Error("WebSocket communication error")
      [] exc = "RequestException" -> Error("HTTP communication error with ComfyUI")
      [] OTHER -> Error("An unexpected error occurred")

(***************************************************************************)
(* validate_input, check_server, upload_media: before the try statement.   *)
(***************************************************************************)
Validate ==
    /\ pc = "validate"
    /\ LET v == validate_input(job_input)
       IN  IF v.raised
           THEN /\ pc' = "raised"
                /\ UNCHANGED <<result, input_media>>
           ELSE IF v.error # ""
           THEN /\ Return(Error(v.error))
                /\ UNCHANGED input_media
           ELSE /\ pc' = "check_server"
                /\ input_media' = v.media
                /\ UNCHANGED result
    /\ UNCHANGED <<inputVars, terminal, tries, probed, upIdx, responses, upload_errors, wsVars,
                   monVars, rcVars, colVars, errors>>

\* what one GET of the engine's root can end in
HttpAnswers == {"200", "503", "timeout", "error"}

\* a handler that goes on to the websocket without uploading its inputs
AfterReady_SkipsUpload == "connect"

\* if input_media: upload them first
AfterReady == IF input_media # <<>> THEN "upload" ELSE "connect"

\* a test that takes any HTTP response for readiness
Ready_AnyResponse(answer) == answer \in {"200", "503"}

\* response.status_code == 200; a timeout or a transport error has no response
Ready(answer) == answer = "200"

\* one turn of check_server's loop: a probe, then return True or sleep
CheckServerProbe(answer) ==
    /\ pc = "check_server"
    /\ tries < COMFY_API_AVAILABLE_MAX_RETRIES
    /\ probed' = answer
    /\ IF Ready(answer)
       THEN /\ pc' = AfterReady
            /\ tries' = 0
       ELSE /\ pc' = pc
            /\ tries' = tries + 1
    /\ UNCHANGED <<inputVars, terminal, input_media, upIdx, responses, upload_errors, wsVars,
                   monVars, rcVars, colVars, errors, result>>

\* the loop ran out: check_server returns False and the handler gives up
CheckServerExhausted ==
    /\ pc = "check_server"
    /\ tries = COMFY_API_AVAILABLE_MAX_RETRIES
    /\ Return(Error("ComfyUI server not reachable after multiple retries"))
    /\ UNCHANGED <<inputVars, terminal, uploadVars, wsVars, monVars, rcVars, colVars, errors>>

\* how resolving one item's bytes ends: "ok", or the except clause taken
Resolve(e, fetched) ==
    CASE e.type = "absent" -> "unexpected"
      [] e.type = "base64" -> IF e.b64ok THEN "ok" ELSE "base64"
      [] e.type = "web" -> IF fetched = "ok" THEN "ok"
                           ELSE IF fetched = "timeout" THEN "timeout" ELSE "request"
      [] e.type = "s3" -> IF fetched = "ok" THEN "ok" ELSE "unexpected"
      [] OTHER -> "unexpected"

\* how the POST to /upload/image ends
Stage(posted) ==
    IF posted = "ok" THEN "ok" ELSE IF posted = "timeout" THEN "timeout" ELSE "request"

\* one turn of upload_media's loop over media_list
UploadItem(fetched, posted) ==
    /\ pc = "upload"
    /\ upIdx < Len(input_media)
    /\ LET e == input_media[upIdx + 1]
           r == Resolve(e, fetched)
           o == IF r = "ok" THEN Stage(posted) ELSE r
       IN  IF e.t # "dict"
           THEN \* media["name"] raises, and so does media.get in the except clause
                /\ pc' = "raised"
                /\ UNCHANGED <<upIdx, responses, upload_errors>>
           ELSE /\ pc' = pc
                /\ upIdx' = upIdx + 1
                /\ IF o = "ok"
                   THEN /\ responses' = Append(responses, Msg("uploaded", <<0, upIdx + 1>>))
                        /\ UNCHANGED upload_errors
                   ELSE /\ upload_errors' = Append(upload_errors, Msg(o, <<0, upIdx + 1>>))
                        /\ UNCHANGED responses
    /\ UNCHANGED <<inputVars, terminal, input_media, tries, probed, wsVars, monVars, rcVars,
                   colVars, errors, result>>

\* a report that lists the line of every item, whatever its outcome
Report_AllLines(resp, errs) ==
    [status |-> IF errs # <<>> THEN "error" ELSE "success", details |-> resp \o errs]

\* what upload_media returns after its loop
Report(resp, errs) ==
    IF errs # <<>>
    THEN [status |-> "error", details |-> errs]
    ELSE [status |-> "success", details |-> resp]

\* upload_media returns its report and the handler looks at its status
UploadDone ==
    /\ pc = "upload"
    /\ upIdx = Len(input_media)
    /\ IF Report(responses, upload_errors).status = "error"
       THEN Return(ErrorDetails("Failed to upload one or more input media",
                                Report(responses, upload_errors).details))
       ELSE /\ pc' = "connect"
            /\ UNCHANGED result
    /\ UNCHANGED <<inputVars, terminal, uploadVars, wsVars, monVars, rcVars, colVars, errors>>

(***************************************************************************)
(* Opening the websocket and submitting the workflow.                      *)
(***************************************************************************)
\* ws = websocket.WebSocket(); ws.connect(ws_url): the handshake succeeds,
\* or raises a WebSocketException, or an OSError (connection refused)
Connect(uuid, shake) ==
    /\ pc = "connect"
    /\ client_id' = uuid
    /\ ws_url' = uuid
    /\ IF shake = "ok"
       THEN /\ ws' = [made |-> TRUE, connected |-> TRUE, url |-> uuid]
            /\ openSockets' = openSockets + 1
            /\ pc' = "queue"
            /\ UNCHANGED result
       ELSE /\ ws' = [made |-> TRUE, connected |-> FALSE, url |-> "none"]
            /\ openSockets' = openSockets
            /\ pc' = "done"
            /\ result' = ExceptResult(shake)
    /\ UNCHANGED <<inputVars, terminal, uploadVars, monVars, rcVars, colVars, errors>>

\* what POST /prompt can end in, seen from the handler: a prompt id, or the
\* message of the ValueError that queue_workflow or the handler raises
QueueAnswers == {"ok", "no_prompt_id", "http_400", "http_error", "unexpected"}

QueueError(answer) ==
    CASE answer = "no_prompt_id" -> "Missing 'prompt_id' in queue response"
      [] answer = "http_400" -> "Workflow validation failed"
      [] answer = "http_error" -> "Error queuing workflow"
      [] OTHER -> "Unexpected error queuing workflow"

\* a check that lets a response without a prompt id through
Submitted_IgnoresMissingId(answer) == answer \in {"ok", "no_prompt_id"}

\* the submission went through: the POST was answered with a prompt id
Submitted(answer) == answer = "ok"

\* queue_workflow(workflow, client_id) and the handler's checks of its answer
Queue(answer, pid) ==
    /\ pc = "queue"
    /\ queued' = answer
    /\ queuedAs' = client_id
    /\ IF Submitted(answer)
       THEN /\ prompt_id' = pid
            /\ pc' = "recv"
            /\ UNCHANGED <<result, wsVars>>
       ELSE /\ ReturnInTry(Error(QueueError(answer)))
            /\ UNCHANGED prompt_id
    /\ UNCHANGED <<inputVars, terminal, uploadVars, recvEvent, out, execution_done, rcVars,
                   colVars, errors>>

(***************************************************************************)
(* The monitoring loop.                                                    *)
(***************************************************************************)
Frame(frame, json, type, node, pid) ==
    [frame |-> frame, json |-> json, type |-> type, node |-> node, pid |-> pid]

\* what ws.recv() can return: a binary frame, or a text frame that is no
\* JSON, JSON that is no object, or a message with a type, and for the
\* executing and execution_error messages a node and a prompt id in data
Frames ==
    { Frame("binary", "n/a", "n/a", "n/a", "n/a"),
      Frame("text", "invalid", "n/a", "n/a", "n/a"),
      Frame("text", "scalar", "n/a", "n/a", "n/a"),
      Frame("text", "object", "status", "n/a", "n/a"),
      Frame("text", "object", "progress", "n/a", "n/a") }
    \cup { Frame("text", "object", "executing", n, p) :
             n \in {"null", "n1"}, p \in PromptIds \cup {"none"} }
    \cup { Frame("text", "object", "execution_error", "n1", p) :
             p \in PromptIds \cup {"none"} }

\* a test that forgets the prompt id
IsFinished_AnyPrompt(f, pid) ==
    /\ f.type = "executing"
    /\ f.node = "null"

\* the executing message that ends the loop: node is None and the prompt id
\* is this job's
IsFinished(f, pid) ==
    /\ f.type = "executing"
    /\ f.node = "null"
    /\ f.pid = pid

\* a test that forgets the prompt id
IsExecutionError_AnyPrompt(f, pid) == f.type = "execution_error"

\* the execution_error message that ends the loop
IsExecutionError(f, pid) ==
    /\ f.type = "execution_error"
    /\ f.pid = pid

\* a loop body without the except clause for json.JSONDecodeError
OnFrame_JsonErrorFatal(f, pid) ==
    IF f.frame # "text" THEN "continue"
    ELSE IF f.json # "object" THEN "raise"
    ELSE IF IsFinished(f, pid) THEN "finished"
    ELSE IF IsExecutionError(f, pid) THEN "failed"
    ELSE "continue"

\* what the body of the loop does with a frame: "continue", "finished",
\* "failed" (both leave the loop by break) or "raise"
OnFrame(f, pid) ==
    IF f.frame # "text" THEN "continue"
    ELSE IF f.json = "invalid" THEN "continue"
    ELSE IF f.json # "object" THEN "raise"
    ELSE IF IsFinished(f, pid) THEN "finished"
    ELSE IF IsExecutionError(f, pid) THEN "failed"
    ELSE "continue"

\* a check after the loop that asks for completion only
LoopExitOk_DoneOnly(done, errs) == done

\* after the loop: if not execution_done and not errors: raise ValueError
LoopExitOk(done, errs) == done \/ errs # <<>>

\* out = ws.recv() returned a frame
RecvFrame(f) ==
    /\ pc = "recv"
    /\ recvEvent' = "frame"
    /\ out' = f
    /\ LET o == OnFrame(f, prompt_id)
           done == IF o = "finished" THEN TRUE ELSE execution_done
           errs == IF o = "failed"
                   THEN Append(errors, Msg("Workflow execution error", <<0, 0>>))
                   ELSE errors
       IN  /\ execution_done' = done
           /\ errors' = errs
           /\ CASE o = "continue" ->
                     /\ pc' = pc
                     /\ UNCHANGED <<result, wsVars>>
                [] o = "raise" ->
                     ReturnInTry(ExceptResult("AttributeError"))
                [] OTHER ->
                     IF LoopExitOk(done, errs)
                     THEN /\ pc' = "get_history"
                          /\ UNCHANGED <<result, wsVars>>
                     ELSE ReturnInTry(Error("Workflow monitoring loop exited without confirmation of completion or error."))
           /\ rcTotal' = IF o = "continue" THEN rcTotal ELSE 0
    /\ UNCHANGED <<inputVars, terminal, uploadVars, prompt_id, queued, queuedAs, attempt,
                   srv_status, rcProbes, rcHandshakes, colVars>>

\* ws.recv() raised WebSocketTimeoutException
RecvTimeout ==
    /\ pc = "recv"
    /\ recvEvent' = "timeout"
    /\ pc' = pc
    /\ UNCHANGED <<inputVars, terminal, uploadVars, wsVars, prompt_id, queued, queuedAs,
                   out, execution_done, rcVars, colVars, errors, result>>

\* ws.recv() raised WebSocketConnectionClosedException (the library has
\* closed the socket by then); _attempt_websocket_reconnect is entered
RecvClosed ==
    /\ pc = "recv"
    /\ recvEvent' = "closed"
    /\ ws' = [ws EXCEPT !.connected = FALSE]
    /\ openSockets' = openSockets - 1
    /\ attempt' = 0
    /\ srv_status' = "none"
    /\ rcProbes' = 0
    /\ rcHandshakes' = 0
    /\ pc' = "rc_probe"
    /\ UNCHANGED <<inputVars, terminal, uploadVars, client_id, ws_url, prompt_id, queued,
                   queuedAs, out, execution_done, rcTotal, colVars, errors, result>>

\* ws.recv() raised another WebSocketException, or an OSError
RecvError(exc) ==
    /\ pc = "recv"
    /\ recvEvent' = exc
    /\ ReturnInTry(ExceptResult(exc))
    /\ UNCHANGED <<inputVars, terminal, uploadVars, prompt_id, queued, queuedAs, out,
                   execution_done, rcVars, colVars, errors>>

(***************************************************************************)
(* _attempt_websocket_reconnect                                            *)
(***************************************************************************)
\* a probe that takes any HTTP answer for reachable
Reachable_AnyStatus(answer) == answer \in {"200", "503"}

\* _comfy_server_status()["reachable"]
Reachable(answer) == answer = "200"

\* a loop that makes one turn more than max_attempts
InBudget_OneMore(a) == a <= WEBSOCKET_RECONNECT_ATTEMPTS

\* a budget that all the disconnections of one job share
InBudget_PerJob(a) == rcTotal < WEBSOCKET_RECONNECT_ATTEMPTS

\* for attempt in range(max_attempts): whether there is another turn
InBudget(a) == a < WEBSOCKET_RECONNECT_ATTEMPTS

\* one turn of the loop, first half: the HTTP probe
ReconnectProbe(answer) ==
    /\ pc = "rc_probe"
    /\ InBudget(attempt)
    /\ srv_status' = answer
    /\ rcProbes' = rcProbes + 1
    /\ IF Reachable(answer)
       THEN /\ pc' = "rc_connect"
            /\ UNCHANGED <<result, wsVars>>
       ELSE ReturnInTry(ExceptResult("WebSocketException"))
    /\ UNCHANGED <<inputVars, terminal, uploadVars, monVars, attempt, rcHandshakes,
                   rcTotal, colVars, errors>>

\* a handshake under a client id drawn anew
Reconnected_FreshId(url) == [made |-> TRUE, connected |-> TRUE, url |-> "c2"]

\* a handshake at the address without the clientId parameter
Reconnected_NoClientId(url) == [made |-> TRUE, connected |-> TRUE, url |-> "none"]

\* the websocket a successful handshake yields
Reconnected(url) == [made |-> TRUE, connected |-> TRUE, url |-> url]

\* one turn of the loop, second half: new_ws.connect(ws_url); on success the
\* function returns new_ws, which the handler assigns to ws
ReconnectHandshake(shake) ==
    /\ pc = "rc_connect"
    /\ IF shake = "ok"
       THEN \* the function returns: its locals are gone
            /\ ws' = Reconnected(ws_url)
            /\ openSockets' = openSockets + 1
            /\ pc' = "recv"
            /\ attempt' = 0
            /\ srv_status' = "none"
            /\ rcProbes' = 0
            /\ rcHandshakes' = 0
            /\ UNCHANGED rcTotal
       ELSE /\ pc' = "rc_probe"
            /\ attempt' = attempt + 1
            /\ rcHandshakes' = rcHandshakes + 1
            /\ rcTotal' = IF rcTotal < MaxTotal THEN rcTotal + 1 ELSE rcTotal
            /\ UNCHANGED <<ws, openSockets, srv_status, rcProbes>>
    /\ UNCHANGED <<inputVars, terminal, uploadVars, client_id, ws_url, monVars, colVars,
                   errors, result>>

\* the loop ran out: the function raises WebSocketConnectionClosedException
ReconnectExhausted ==
    /\ pc = "rc_probe"
    /\ ~InBudget(attempt)
    /\ ReturnInTry(ExceptResult("WebSocketException"))
    /\ UNCHANGED <<inputVars, terminal, uploadVars, monVars, rcVars, colVars, errors>>

(***************************************************************************)
(* History and the collection of the artifacts.                            *)
(*                                                                         *)
(* The history record is an input.  Its outputs mapping is drawn node by   *)
(* node and image by image as the two loops read it, which gives the same  *)
(* runs as drawing it whole when get_history returns; history.outputs is   *)
(* the part read so far.  An artifact is named <<n, k>>: image k of node n.*)
(***************************************************************************)
\* one entry of node_output["images"]: shape "dict", or "bad" for an entry
\* that is no dict; type is the value under 'type'; filename says whether
\* 'filename' is present and not empty
Image(shape, type, filename) == [shape |-> shape, type |-> type, filename |-> filename]

Images ==
    { Image("dict", "output", TRUE), Image("dict", "output", FALSE),
      Image("dict", "temp", TRUE), Image("bad", "output", FALSE) }

\* one value of the outputs mapping: whether it has the key 'images', the
\* entries of that list read so far, and whether it has other keys
Node(images, other) == [images |-> images, imgs |-> <<>>, other |-> other]

\* the nodes drawn: with images only, with images and other keys, with
\* other keys only
NodeShapes == { <<TRUE, FALSE>>, <<TRUE, TRUE>>, <<FALSE, TRUE>> }

\* how many image entries of the history record were read
RECURSIVE Artifacts(_)
Artifacts(outputs) ==
    IF outputs = <<>> THEN 0
    ELSE Len(Head(outputs).imgs) + Artifacts(Tail(outputs))

\* what GET /history/{prompt_id} can end in: an HTTP error, a mapping
\* without the prompt id, or the record; "empty" says its outputs are empty
\* or missing
HistoryAnswers == {"http_error", "absent", "empty", "outputs"}

\* a handler that only prints the warning about empty outputs
AfterOutputsCheck_PrintOnly(empty, errs) == errs

\* the errors the handler goes on with when the record was found
AfterOutputsCheck(empty, errs) ==
    IF empty /\ errs = <<>>
    THEN Append(errs, Msg("No outputs found in history", <<0, 0>>))
    ELSE errs

\* a return that forgets the errors recorded during monitoring
NotFound_DropsErrors(errs) == Error("Prompt ID not found in history after execution.")

\* the return of the handler when the prompt id is not in the history
NotFound(errs) ==
    IF errs = <<>>
    THEN Error("Prompt ID not found in history after execution.")
    ELSE ErrorDetails("Job processing failed, prompt ID not found in history.",
                      Append(errs, Msg("Prompt ID not found in history after execution.", <<0, 0>>)))

\* history = get_history(prompt_id), and the handler's look at the record
GetHistory(answer) ==
    /\ pc = "get_history"
    /\ CASE answer = "http_error" ->
              /\ ReturnInTry(ExceptResult("RequestException"))
              /\ UNCHANGED <<history, errors>>
         [] answer = "absent" ->
              /\ history' = [history EXCEPT !.fetched = TRUE, !.pid = prompt_id]
              /\ errors' = IF errors = <<>> THEN errors ELSE NotFound(errors).details
              /\ ReturnInTry(NotFound(errors))
         [] OTHER ->
              /\ history' = [fetched |-> TRUE, found |-> TRUE,
                             empty |-> (answer = "empty"), outputs |-> <<>>,
                             pid |-> prompt_id]
              /\ errors' = AfterOutputsCheck(answer = "empty", errors)
              /\ pc' = "nodes"
              /\ UNCHANGED <<result, wsVars>>
    /\ UNCHANGED <<inputVars, terminal, uploadVars, monVars, rcVars, fetchLog, tempFiles,
                   temp_file_path, output_data>>

\* a handler that records the warning about unhandled keys in errors
UnhandledKeys_Recorded(node, errs) ==
    IF node.other THEN Append(errs, Msg("unhandled output keys", <<0, 0>>)) ELSE errs

\* lines 827-833: the keys of a node other than 'images' are printed as a
\* warning; errs is the handler's list of errors after it
UnhandledKeys(node, errs) == errs

\* for node_id, node_output in outputs.items(): the next node; a node
\* without 'images' is done with at once
NextNode(images, other) ==
    /\ pc = "nodes"
    /\ ~history.empty
    /\ Len(history.outputs) < MaxNodes
    /\ history' = [history EXCEPT !.outputs = Append(@, Node(images, other))]
    /\ pc' = IF images THEN "images" ELSE "nodes"
    /\ errors' = IF images THEN errors ELSE UnhandledKeys(Node(images, other), errors)
    /\ UNCHANGED <<inputVars, terminal, uploadVars, wsVars, monVars, rcVars, fetchLog,
                   tempFiles, temp_file_path, output_data, result>>

\* the loop over the nodes is over: the try statement ends, finally runs
EndOutputs ==
    /\ pc = "nodes"
    /\ history.empty \/ history.outputs # <<>>
    /\ pc' = "assemble"
    /\ ws' = Finally(ws, openSockets).ws
    /\ openSockets' = Finally(ws, openSockets).open
    /\ UNCHANGED <<inputVars, terminal, uploadVars, client_id, ws_url, monVars, rcVars,
                   colVars, errors, result>>

\* the loop over node_output["images"] is over: the unhandled keys of the
\* node are printed, and the next node is due
EndImages ==
    /\ pc = "images"
    /\ pc' = "nodes"
    /\ errors' = UnhandledKeys(history.outputs[Len(history.outputs)], errors)
    /\ UNCHANGED <<inputVars, terminal, uploadVars, wsVars, monVars, rcVars, colVars, result>>

\* a loop body without the test for type 'temp'
OnImage_NoTempSkip(img) ==
    IF img.shape # "dict" THEN "raise"
    ELSE IF ~img.filename THEN "no_filename"
    ELSE "fetch"

\* what the body of the loop does with one entry of the images list
OnImage(img) ==
    IF img.shape # "dict" THEN "raise"
    ELSE IF img.type = "temp" THEN "skip"
    ELSE IF ~img.filename THEN "no_filename"
    ELSE "fetch"

\* what GET /view can end in
FetchAnswers == {"ok", "empty", "timeout", "http_error", "error"}

\* get_image_data returns response.content, or None after an exception
get_image_data(answer) ==
    IF answer = "ok" THEN "bytes" ELSE IF answer = "empty" THEN "empty" ELSE "none"

\* a handler that does not test what get_image_data returned
Truthy_Always(image_bytes) == TRUE

\* `if image_bytes`: false for None and for no bytes
Truthy(image_bytes) == image_bytes = "bytes"

\* where the object-store path can fail: creating the temporary file,
\* writing it, boto_upload_media (credentials, put-object, presigning);
\* or nowhere
PublishAnswers == {"ok", "create", "write", "upload"}

\* temp_file_path after the with statement of the object-store path
PathAfter(stage, at, path) ==
    IF stage \in {"upload", "ok"} THEN at ELSE path

\* the temporary files after the object-store path, its except clause
\* included: the clause removes the file temp_file_path names, if it exists
FilesAfter(stage, at, path, files) ==
    LET made == IF stage = "create" THEN files ELSE files \cup {at}
        p == PathAfter(stage, at, path)
    IN  IF stage = "ok" THEN made \ {at}
        ELSE IF p # NoPath /\ p \in made THEN made \ {p}
        ELSE made

\* one published artifact: "base64" inline, "s3_url" in the object store
Media(at, type) == [at |-> at, type |-> type]

\* an object-store branch that lists the artifact even when a step failed
PublishToBucket_KeepsFailed(at, stage) ==
    /\ temp_file_path' = PathAfter(stage, at, temp_file_path)
    /\ tempFiles' = FilesAfter(stage, at, temp_file_path, tempFiles)
    /\ output_data' = Append(output_data, Media(at, "s3_url"))
    /\ IF stage = "ok"
       THEN UNCHANGED errors
       ELSE errors' = Append(errors, Msg("Error uploading to S3", at))

\* the object-store branch for the bytes of artifact `at`
PublishToBucket(at, stage) ==
    /\ temp_file_path' = PathAfter(stage, at, temp_file_path)
    /\ tempFiles' = FilesAfter(stage, at, temp_file_path, tempFiles)
    /\ IF stage = "ok"
       THEN /\ output_data' = Append(output_data, Media(at, "s3_url"))
            /\ UNCHANGED errors
       ELSE /\ errors' = Append(errors, Msg("Error uploading to S3", at))
            /\ UNCHANGED output_data

\* the inline branch for the bytes of artifact `at`
PublishInline(at) ==
    /\ output_data' = Append(output_data, Media(at, "base64"))
    /\ UNCHANGED <<tempFiles, temp_file_path, errors>>

\* image_bytes = get_image_data(...), and what the handler does with them
FetchAndPublish(at, fetched) ==
    /\ fetchLog' = Append(fetchLog, [at |-> at, ok |-> (fetched = "ok")])
    /\ IF ~Truthy(get_image_data(fetched))
       THEN /\ errors' = Append(errors, Msg("Failed to fetch image data", at))
            /\ UNCHANGED <<tempFiles, temp_file_path, output_data>>
       ELSE IF bucket
       THEN \E stage \in PublishAnswers : PublishToBucket(at, stage)
       ELSE PublishInline(at)

\* for image_info in node_output["images"]: one turn of the loop
NextImage(img) ==
    /\ pc = "images"
    /\ Artifacts(history.outputs) < MaxArtifacts
    /\ LET n == Len(history.outputs)
           at == <<n, Len(history.outputs[n].imgs) + 1>>
           o == OnImage(img)
       IN  /\ history' = [history EXCEPT !.outputs[n].imgs = Append(@, img)]
           /\ CASE o = "raise" ->
                     /\ ReturnInTry(ExceptResult("AttributeError"))
                     /\ UNCHANGED <<fetchLog, tempFiles, temp_file_path, output_data, errors>>
                [] o = "skip" ->
                     /\ pc' = pc
                     /\ UNCHANGED <<fetchLog, tempFiles, temp_file_path, output_data,
                                    errors, result, wsVars>>
                [] o = "no_filename" ->
                     /\ pc' = pc
                     /\ errors' = Append(errors, Msg("Skipping image due to missing filename", at))
                     /\ UNCHANGED <<fetchLog, tempFiles, temp_file_path, output_data,
                                    result, wsVars>>
                [] OTHER ->
                     /\ pc' = pc
                     /\ \E fetched \in FetchAnswers : FetchAndPublish(at, fetched)
                     /\ UNCHANGED <<result, wsVars>>
    /\ UNCHANGED <<inputVars, terminal, uploadVars, monVars, rcVars>>

(***************************************************************************)
(* The result, after the try statement.                                    *)
(***************************************************************************)
\* a result that is a failure whenever an error or warning was recorded
FinalResult_FailOnAnyError(media, errs) ==
    IF errs # <<>>
    THEN ErrorDetails("Job processing failed", errs)
    ELSE IF media = <<>>
    THEN Result({"status", "media"}, "", <<>>, <<>>, <<>>, "success_no_media")
    ELSE Result({"media"}, "", <<>>, media, <<>>, "")

\* lines 856-877: final_result
FinalResult(media, errs) ==
    IF media = <<>> /\ errs # <<>>
    THEN ErrorDetails("Job processing failed", errs)
    ELSE IF media = <<>>
    THEN Result({"status", "media"}, "", <<>>, <<>>, <<>>, "success_no_media")
    ELSE IF errs # <<>>
    THEN Result({"media", "errors"}, "", <<>>, media, errs, "")
    ELSE Result({"media"}, "", <<>>, media, <<>>, "")

Assemble ==
    /\ pc = "assemble"
    /\ Return(FinalResult(output_data, errors))
    /\ UNCHANGED <<inputVars, terminal, uploadVars, wsVars, monVars, rcVars, colVars, errors>>

(***************************************************************************)
(* The specification.                                                      *)
(***************************************************************************)
Next ==
    \/ Validate
    \/ \E a \in HttpAnswers : CheckServerProbe(a)
    \/ CheckServerExhausted
    \/ \E f \in {"ok", "timeout", "error"}, p \in {"ok", "timeout", "error"} : UploadItem(f, p)
    \/ UploadDone
    \/ \E u \in ClientIds, h \in {"ok", "WebSocketException", "OSError"} : Connect(u, h)
    \/ \E a \in QueueAnswers, p \in JobPromptIds : Queue(a, p)
    \/ \E f \in Frames : RecvFrame(f)
    \/ RecvTimeout
    \/ RecvClosed
    \/ \E e \in {"WebSocketException", "OSError"} : RecvError(e)
    \/ \E a \in HttpAnswers : ReconnectProbe(a)
    \/ \E h \in {"ok", "failed"} : ReconnectHandshake(h)
    \/ ReconnectExhausted
    \/ \E a \in HistoryAnswers : GetHistory(a)
    \/ \E s \in NodeShapes : NextNode(s[1], s[2])
    \/ EndOutputs
    \/ \E i \in Images : NextImage(i)
    \/ EndImages
    \/ Assemble

Spec == Init /\ [][Next]_vars

(***************************************************************************)
(* validate_input alone, on every payload of Payloads: the handler is      *)
(* followed up to the return of validate_input and no further.             *)
(***************************************************************************)
InitValidate ==
    /\ job_input \in Payloads
    /\ Start

NextValidate == Validate

SpecValidate == InitValidate /\ [][NextValidate]_vars

(***************************************************************************)
(* The handler together with the engine it monitors.  The engine emits the *)
(* terminal event of the submitted job once, an executing message with a   *)
(* null node or an execution_error message, to the websocket registered    *)
(* under the client id at that moment; it keeps no event for a websocket   *)
(* that registers later.  The handler asks for nothing else: lines 669-716 *)
(* read the job's state from ws.recv() alone.  Every disconnection is      *)
(* recovered: each probe answers 200 and a handshake succeeds before the   *)
(* budget of the run is used up.                                           *)
(***************************************************************************)
\* the frames that end the loop for this job
TerminalFrames == { f \in Frames : OnFrame(f, prompt_id) \in {"finished", "failed"} }

\* the engine finishes the submitted job while the handler monitors it
EngineFinish ==
    /\ pc \in {"recv", "rc_probe", "rc_connect"}
    /\ queued = "ok"
    /\ terminal = "none"
    /\ terminal' = IF ws.connected THEN "sent" ELSE "lost"
    /\ UNCHANGED <<pc, inputVars, uploadVars, wsVars, monVars, rcVars, colVars, errors,
                   result>>

\* ws.recv() returns a frame; a terminal frame of this job only if the
\* engine wrote one to this websocket
RecvFrameLive(f) ==
    /\ f \in TerminalFrames => terminal = "sent"
    /\ RecvFrame(f)

\* ws.recv() returns the terminal frame that was written to this websocket
DeliverTerminal == \E f \in TerminalFrames : RecvFrameLive(f)

\* the connection drops; a frame already written to it is read first
RecvClosedLive ==
    /\ terminal # "sent"
    /\ RecvClosed

\* the engine's HTTP side is up during the reconnect
ReconnectProbeLive ==
    /\ pc = "rc_probe"
    /\ ReconnectProbe("200")

\* a handshake may fail as long as a further attempt is left to succeed
ReconnectHandshakeLive(shake) ==
    /\ shake = "failed" => attempt + 1 < WEBSOCKET_RECONNECT_ATTEMPTS
    /\ ReconnectHandshake(shake)

NextLive ==
    \/ Validate
    \/ \E a \in HttpAnswers : CheckServerProbe(a)
    \/ CheckServerExhausted
    \/ \E f \in {"ok", "timeout", "error"}, p \in {"ok", "timeout", "error"} : UploadItem(f, p)
    \/ UploadDone
    \/ \E u \in ClientIds, h \in {"ok", "WebSocketException", "OSError"} : Connect(u, h)
    \/ \E a \in QueueAnswers, p \in JobPromptIds : Queue(a, p)
    \/ EngineFinish
    \/ \E f \in Frames : RecvFrameLive(f)
    \/ RecvTimeout
    \/ RecvClosedLive
    \/ \E e \in {"WebSocketException", "OSError"} : RecvError(e)
    \/ ReconnectProbeLive
    \/ \E h \in {"ok", "failed"} : ReconnectHandshakeLive(h)
    \/ \E a \in HistoryAnswers : GetHistory(a)
    \/ \E s \in NodeShapes : NextNode(s[1], s[2])
    \/ EndOutputs
    \/ \E i \in Images : NextImage(i)
    \/ EndImages
    \/ Assemble

\* the handler runs on while it can; the engine finishes the job; a frame
\* written to the open websocket is received
SpecLive ==
    /\ Init
    /\ [][NextLive]_vars
    /\ WF_vars(NextLive)
    /\ WF_vars(EngineFinish)
    /\ WF_vars(DeliverTerminal)

(***************************************************************************)
(* The claims.                                                             *)
(***************************************************************************)

\* C1: whenever the handler reaches result assembly, what it returns is
\* decided by the published media and the recorded errors alone: no media
\* and no errors give status success_no_media with an empty media list; no
\* media and some error give an error with the errors as details; some
\* media give the media and no error, warnings or not.
C1_OutcomeRule ==
    [][pc = "assemble" =>
         /\ pc' = "done"
         /\ (output_data = <<>> /\ errors = <<>> =>
               /\ result'.status = "success_no_media"
               /\ "media" \in result'.keys
               /\ result'.media = <<>>
               /\ "error" \notin result'.keys)
         /\ (output_data = <<>> /\ errors # <<>> =>
               /\ {"error", "details"} \subseteq result'.keys
               /\ result'.details = errors
               /\ "media" \notin result'.keys)
         /\ (output_data # <<>> =>
               /\ "media" \in result'.keys
               /\ result'.media = output_data
               /\ result'.status # "success_no_media"
               /\ "error" \notin result'.keys)]_vars

\* C1, its case: media were published next to a warning and returned
C1_Witness ==
    /\ pc = "done"
    /\ history.found
    /\ result.media # <<>>
    /\ result.errors # <<>>
    /\ "error" \notin result.keys

\* C2: when the handler has returned, no websocket connection that this
\* invocation opened is open.
C2_ExitGuarantee ==
    pc \in {"assemble", "done"} => openSockets = 0 /\ ~ws.connected

\* C2, its case: a connection was opened, and the handler returned from an
\* exception during the collection of the artifacts
C2_Witness ==
    /\ pc = "done"
    /\ ws.made
    /\ ws.url = client_id
    /\ history.found
    /\ result = Error("An unexpected error occurred")

\* C3: no exception leaves handler(): every run ends in a returned value.
C3_NeverRaises == pc # "raised"

\* the steps of the monitoring phase: the loop and the reconnect protocol
Monitoring == {"recv", "rc_probe", "rc_connect"}

\* C4: after a disconnection, a successful handshake puts the handler back
\* into the loop on a new open connection under the original client id,
\* with the prompt id and everything recorded so far unchanged, and from
\* there the matching terminal events still end the loop; when the
\* protocol fails instead, the handler returns the websocket error, with no
\* history fetched and no media fetched or published.
C4_ReconnectResumes ==
    /\ [](pc = "recv" /\ recvEvent = "closed" =>
            /\ ws.connected
            /\ ws.url = client_id
            /\ openSockets = 1
            /\ prompt_id \in JobPromptIds
            /\ result = NoResult
            /\ ENABLED (/\ RecvFrame(Frame("text", "object", "executing", "null", prompt_id))
                        /\ pc' = "get_history"
                        /\ execution_done')
            /\ ENABLED (/\ RecvFrame(Frame("text", "object", "execution_error", "n1", prompt_id))
                        /\ pc' = "get_history"
                        /\ errors' # <<>>))
    /\ [][pc = "rc_connect" /\ pc' = "recv" =>
            /\ ws'.connected
            /\ ws'.url = client_id
            /\ UNCHANGED <<client_id, prompt_id, execution_done, errors, output_data,
                           history, result>>]_vars
    /\ [][(pc \in {"rc_probe", "rc_connect"}) /\ pc' \notin Monitoring =>
            /\ pc' = "done"
            /\ result' = Error("WebSocket communication error")
            /\ ~history'.fetched
            /\ fetchLog' = <<>>
            /\ Len(output_data') = 0]_vars

\* C4, its case: the connection was lost, a handshake succeeded, and the
\* handler is receiving again
C4_Witness ==
    /\ pc = "recv"
    /\ recvEvent = "closed"
    /\ ws.connected
    /\ prompt_id = "p1"

\* C5: a handshake is attempted only right after a probe of the same
\* attempt that answered 200; a probe that answers anything else ends the
\* protocol at once with the websocket error, without a handshake, and
\* nothing happens after the handler has returned.
C5_ProbeBeforeHandshake ==
    /\ [](pc = "rc_connect" =>
            /\ srv_status = "200"
            /\ rcProbes = attempt + 1
            /\ rcHandshakes = attempt)
    /\ [][pc = "rc_probe" /\ rcProbes' = rcProbes + 1 /\ srv_status' # "200" =>
            /\ pc' = "done"
            /\ result' = Error("WebSocket communication error")
            /\ rcHandshakes' = rcHandshakes
            /\ ~ws'.connected]_vars
    /\ [][pc # "done"]_vars

\* C5, its case: the second probe of a run answered 503 with attempts left,
\* and the handler returned after two probes and one handshake
C5_Witness ==
    /\ pc = "done"
    /\ srv_status = "503"
    /\ rcProbes = 2
    /\ rcHandshakes = 1
    /\ attempt < WEBSOCKET_RECONNECT_ATTEMPTS - 1

\* C6: the loop is left for the history fetch only by a received executing
\* message with a null node and this job's prompt id (Completed), or by a
\* received execution_error message with this job's prompt id (Failed);
\* status messages, executing messages with a node, and executing or
\* execution_error messages of another prompt leave the handler receiving,
\* with nothing recorded.
C6_LeavesStreaming ==
    /\ [][pc = "recv" /\ pc' = "get_history" =>
            /\ recvEvent' = "frame"
            /\ out'.pid = prompt_id
            /\ \/ /\ out'.type = "executing"
                  /\ out'.node = "null"
                  /\ execution_done'
                  /\ errors' = errors
               \/ /\ out'.type = "execution_error"
                  /\ ~execution_done'
                  /\ Len(errors') = Len(errors) + 1]_vars
    /\ [][/\ pc = "recv"
          /\ recvEvent' = "frame"
          /\ out'.json = "object"
          /\ \/ out'.type = "status"
             \/ out'.type = "executing" /\ out'.node # "null"
             \/ out'.type \in {"executing", "execution_error"} /\ out'.pid # prompt_id
          => /\ pc' = "recv"
             /\ UNCHANGED <<execution_done, errors, ws, openSockets, result>>]_vars

\* C6, its case: the completion of another prompt was received and the
\* handler is still receiving
C6_Witness ==
    /\ pc = "recv"
    /\ recvEvent = "frame"
    /\ out.type = "executing"
    /\ out.node = "null"
    /\ out.pid = "p2"
    /\ prompt_id = "p1"
    /\ ~execution_done

\* C7: the handler is at or past the history fetch only if the last frame
\* received was Completed or Failed for this prompt (Failed with the error
\* recorded); every other way out of the monitoring phase is a return of an
\* error.
C7_NoSilentExit ==
    /\ [](pc \in {"get_history", "nodes", "images", "assemble"} \/ history.fetched =>
            \/ /\ execution_done
               /\ out.type = "executing"
               /\ out.node = "null"
               /\ out.pid = prompt_id
            \/ /\ out.type = "execution_error"
               /\ out.pid = prompt_id
               /\ errors # <<>>
               /\ errors[1].kind = "Workflow execution error")
    /\ [][(pc \in Monitoring) /\ pc' \notin Monitoring \cup {"get_history"} =>
            /\ pc' = "done"
            /\ result'.keys = {"error"}
            /\ ~history'.fetched]_vars

\* C7, its case: the loop ended in Failed, and the handler is about to
\* fetch the history
C7_Witness ==
    /\ pc = "get_history"
    /\ ~execution_done
    /\ out.type = "execution_error"
    /\ errors # <<>>

\* C8: a receive that times out, a binary frame and a text frame that is
\* not JSON each leave the handler receiving on the same connection, with
\* no error recorded, no reconnect started and nothing returned.
C8_IgnoredFrames ==
    [][/\ pc = "recv"
       /\ \/ recvEvent' = "timeout"
          \/ recvEvent' = "frame" /\ out'.frame = "binary"
          \/ recvEvent' = "frame" /\ out'.frame = "text" /\ out'.json = "invalid"
       => /\ pc' = "recv"
          /\ ws'.connected
          /\ UNCHANGED <<ws, openSockets, errors, execution_done, prompt_id, rcVars,
                         colVars, result>>]_vars

\* C8, its case: a receive timed out after a text frame that is not JSON,
\* and the handler is still receiving
C8_Witness ==
    /\ pc = "recv"
    /\ recvEvent = "timeout"
    /\ out.frame = "text"
    /\ out.json = "invalid"
    /\ ws.connected
    /\ errors = <<>>

\* whether a list of lines or media mentions the artifact `at`
Mentions(lines, at) == \E i \in DOMAIN lines : lines[i].at = at

\* how many lines of a list are about the artifact `at`
RECURSIVE CountAbout(_, _)
CountAbout(lines, at) ==
    IF lines = <<>> THEN 0
    ELSE (IF Head(lines).at = at THEN 1 ELSE 0) + CountAbout(Tail(lines), at)

\* C9: an artifact of type temp, at any position of the history record, is
\* never asked for from /view, is in no list of media, and no error or
\* warning is about it.
C9_TempNeverPublished ==
    \A n \in DOMAIN history.outputs : \A k \in DOMAIN history.outputs[n].imgs :
        history.outputs[n].imgs[k].type = "temp" =>
            /\ ~Mentions(fetchLog, <<n, k>>)
            /\ ~Mentions(output_data, <<n, k>>)
            /\ ~Mentions(result.media, <<n, k>>)
            /\ ~Mentions(errors, <<n, k>>)
            /\ ~Mentions(result.errors, <<n, k>>)
            /\ ~Mentions(result.details, <<n, k>>)

\* C9, its case: a temp artifact came second in a node, after one that was
\* published, and the handler returned that one alone, with no warning
C9_Witness ==
    /\ pc = "done"
    /\ \E n \in DOMAIN history.outputs :
          /\ Len(history.outputs[n].imgs) = 2
          /\ history.outputs[n].imgs[1].type = "output"
          /\ history.outputs[n].imgs[2].type = "temp"
    /\ Len(result.media) = 1
    /\ result.keys = {"media"}

\* C10: every artifact with a filename and a type other than temp that the
\* loops come to is asked for once, whatever happened to the ones before; a
\* miss leaves exactly one warning about it and no media for it, bytes that
\* arrive are published or leave a publication warning; and the step of a
\* miss adds that one warning and goes on with the loop.
C10_FetchMissSoft ==
    /\ [](\A n \in DOMAIN history.outputs : \A k \in DOMAIN history.outputs[n].imgs :
            LET img == history.outputs[n].imgs[k]
                at == <<n, k>>
            IN  img.shape = "dict" /\ img.type # "temp" /\ img.filename =>
                   /\ CountAbout(fetchLog, at) = 1
                   /\ \A i \in DOMAIN fetchLog : fetchLog[i].at = at =>
                         IF fetchLog[i].ok
                         THEN CountAbout(output_data, at) + CountAbout(errors, at) = 1
                         ELSE /\ CountAbout(errors, at) = 1
                              /\ ~Mentions(output_data, at))
    /\ [][/\ Len(fetchLog') = Len(fetchLog) + 1
          /\ ~fetchLog'[Len(fetchLog')].ok
          => /\ pc' = "images"
             /\ errors' = Append(errors, Msg("Failed to fetch image data",
                                             fetchLog'[Len(fetchLog')].at))
             /\ UNCHANGED <<output_data, result, tempFiles>>]_vars

\* C10, its case: the artifact of the first node was missed, the artifact
\* of the second node was fetched and published, and the handler returned
\* that one with the one warning
C10_Witness ==
    /\ pc = "done"
    /\ Len(fetchLog) = 2
    /\ fetchLog[1] = [at |-> <<1, 1>>, ok |-> FALSE]
    /\ fetchLog[2] = [at |-> <<2, 1>>, ok |-> TRUE]
    /\ Len(result.media) = 1
    /\ result.media[1].at = <<2, 1>>
    /\ Len(result.errors) = 1
    /\ result.errors[1].at = <<1, 1>>

\* whether artifact b comes after artifact a in the order of the two loops
After(a, b) == b[1] > a[1] \/ (b[1] = a[1] /\ b[2] > a[2])

\* whether a line is the warning of a failed publication to the object store
IsPublishWarning(line) == line.kind = "Error uploading to S3"

\* C11: with the object store configured, a failure of any step of the
\* publication of one artifact is caught: the step that meets it records
\* one warning about the artifact and goes on with the loop, the artifact is
\* in no list of media, every later artifact the loops come to is still
\* asked for, and when the handler assembles its result with some other
\* artifact published, it returns the media with the warnings and no error.
C11_PublishFailureSoft ==
    /\ [](\A i \in DOMAIN errors : IsPublishWarning(errors[i]) =>
            /\ bucket
            /\ CountAbout(errors, errors[i].at) = 1
            /\ ~Mentions(output_data, errors[i].at)
            /\ ~Mentions(result.media, errors[i].at)
            /\ \A n \in DOMAIN history.outputs : \A k \in DOMAIN history.outputs[n].imgs :
                  LET img == history.outputs[n].imgs[k]
                  IN  /\ After(errors[i].at, <<n, k>>)
                      /\ img.shape = "dict" /\ img.type # "temp" /\ img.filename
                      => Mentions(fetchLog, <<n, k>>))
    /\ [][/\ Len(errors') = Len(errors) + 1
          /\ IsPublishWarning(errors'[Len(errors')])
          => /\ pc = "images"
             /\ pc' = "images"
             /\ UNCHANGED <<output_data, result, ws, openSockets>>]_vars
    /\ [][/\ pc = "assemble"
          /\ output_data # <<>>
          /\ \E i \in DOMAIN errors : IsPublishWarning(errors[i])
          => /\ result'.keys = {"media", "errors"}
             /\ result'.media = output_data
             /\ result'.errors = errors]_vars

\* C11, its case: the publication of the first artifact failed, the second
\* artifact was published to the object store, and the handler returned the
\* second with the warning about the first
C11_Witness ==
    /\ pc = "done"
    /\ bucket
    /\ Len(result.errors) = 1
    /\ IsPublishWarning(result.errors[1])
    /\ result.errors[1].at = <<1, 1>>
    /\ Len(result.media) = 1
    /\ result.media[1].type = "s3_url"
    /\ After(<<1, 1>>, result.media[1].at)
    /\ "error" \notin result.keys

\* C12: after the publication attempt for an artifact has ended, however it
\* ended, no temporary file of this job exists.
C12_TempFilesRemoved == tempFiles = {}

\* C13: when the fetched history does not hold the prompt id, the handler
\* returns a failure at once, with no artifact asked for or published; with
\* no error recorded the failure is the not-found message, and otherwise
\* its details are the recorded errors, each of them and in their order,
\* followed by the not-found message.
C13_NotFoundFails ==
    /\ [][pc = "get_history" /\ history'.fetched /\ ~history'.found =>
            /\ pc' = "done"
            /\ "error" \in result'.keys
            /\ "media" \notin result'.keys
            /\ fetchLog' = <<>>
            /\ Len(output_data') = 0
            /\ (errors = <<>> =>
                  result' = Error("Prompt ID not found in history after execution."))
            /\ (errors # <<>> =>
                  /\ result'.keys = {"error", "details"}
                  /\ Len(result'.details) = Len(errors) + 1
                  /\ \A i \in DOMAIN errors : result'.details[i] = errors[i]
                  /\ result'.details[Len(errors) + 1].kind =
                        "Prompt ID not found in history after execution.")]_vars
    /\ [](history.fetched /\ ~history.found =>
            /\ pc = "done"
            /\ fetchLog = <<>>
            /\ output_data = <<>>
            /\ tempFiles = {})

\* C13, its case: an execution error was recorded, the history came without
\* the prompt id, and the handler returned both lines as details
C13_Witness ==
    /\ pc = "done"
    /\ history.fetched
    /\ ~history.found
    /\ Len(result.details) = 2
    /\ result.details[1].kind = "Workflow execution error"
    /\ result.details[2].kind = "Prompt ID not found in history after execution."

\* whether an execution error was recorded: it is the first line of errors
Failed(errs) == errs # <<>> /\ errs[1].kind = "Workflow execution error"

\* C14: an execution_error message for this prompt is recorded and sends
\* the handler to the history fetch; from then on every artifact with a
\* filename and a type other than temp that the loops come to is asked for
\* once, and one whose bytes arrive is published (or, with the object store,
\* leaves a publication warning); the list of media only grows; and the
\* result assembled holds the execution error, in errors next to all the
\* published media, or in the details of a failure when there is none.
C14_ExecutionErrorSoft ==
    /\ [][/\ pc = "recv"
          /\ recvEvent' = "frame"
          /\ out'.type = "execution_error"
          /\ out'.pid = prompt_id
          => /\ pc' = "get_history"
             /\ errors' = Append(errors, Msg("Workflow execution error", <<0, 0>>))
             /\ result' = result]_vars
    /\ [](Failed(errors) =>
            \A n \in DOMAIN history.outputs : \A k \in DOMAIN history.outputs[n].imgs :
               LET img == history.outputs[n].imgs[k]
               IN  img.shape = "dict" /\ img.type # "temp" /\ img.filename =>
                      /\ CountAbout(fetchLog, <<n, k>>) = 1
                      /\ \A i \in DOMAIN fetchLog :
                            fetchLog[i].at = <<n, k>> /\ fetchLog[i].ok =>
                               \/ Mentions(output_data, <<n, k>>)
                               \/ bucket /\ Mentions(errors, <<n, k>>))
    /\ [][Failed(errors) =>
            /\ Len(output_data') >= Len(output_data)
            /\ \A i \in DOMAIN output_data : output_data'[i] = output_data[i]]_vars
    /\ [][pc = "assemble" /\ Failed(errors) =>
            IF output_data # <<>>
            THEN /\ result'.keys = {"media", "errors"}
                 /\ result'.media = output_data
                 /\ Failed(result'.errors)
            ELSE /\ result'.keys = {"error", "details"}
                 /\ Failed(result'.details)]_vars

\* C14, its case: the workflow failed, the history still listed an
\* artifact, and the handler returned it inline next to the execution error
C14_Witness ==
    /\ pc = "done"
    /\ out.type = "execution_error"
    /\ ~execution_done
    /\ ~bucket
    /\ Len(result.media) = 1
    /\ result.media[1].type = "base64"
    /\ Failed(result.errors)

\* C15: when POST /prompt is rejected with 400, fails otherwise, or is
\* answered without a prompt id, the handler returns an error at once: the
\* websocket it had opened is closed, nothing was read from it, and the
\* history is not fetched.
C15_SubmissionFatal ==
    /\ [][pc = "queue" /\ queued' \in {"http_400", "http_error", "unexpected", "no_prompt_id"} =>
            /\ ws.connected
            /\ pc' = "done"
            /\ result'.keys = {"error"}
            /\ result'.error # ""
            /\ ~ws'.connected
            /\ openSockets' = 0]_vars
    /\ [](queued \notin {"none", "ok"} =>
            /\ pc = "done"
            /\ result.keys = {"error"}
            /\ recvEvent = "none"
            /\ out = NoFrame
            /\ ~history.fetched
            /\ fetchLog = <<>>
            /\ ~ws.connected
            /\ openSockets = 0)

\* C15, its case: the engine rejected the workflow with 400 after the
\* websocket was opened, and the handler returned with the socket closed
C15_Witness ==
    /\ pc = "done"
    /\ queued = "http_400"
    /\ ws.made
    /\ ws.url = client_id
    /\ ~ws.connected
    /\ result = Error("Workflow validation failed")

\* C16: check_server makes its probes one after the other, at most
\* COMFY_API_AVAILABLE_MAX_RETRIES of them; a probe answered with 200, the
\* last one of the budget included, ends it with true and no further probe;
\* a probe that ends in anything else only counts; and it ends with false,
\* not with an exception, exactly when the whole budget was spent on probes
\* that did not answer 200.
C16_CheckServer ==
    /\ [](pc = "check_server" =>
            /\ tries <= COMFY_API_AVAILABLE_MAX_RETRIES
            /\ (tries = 0 => probed = "none")
            /\ (tries > 0 => probed \in {"503", "timeout", "error"})
            /\ (tries < COMFY_API_AVAILABLE_MAX_RETRIES <=> ENABLED CheckServerProbe("200"))
            /\ (tries = COMFY_API_AVAILABLE_MAX_RETRIES <=> ENABLED CheckServerExhausted))
    /\ [][pc = "check_server" /\ pc' \notin {"check_server", "done"} =>
            /\ probed' = "200"
            /\ tries < COMFY_API_AVAILABLE_MAX_RETRIES
            /\ pc' \in {"upload", "connect"}
            /\ result' = NoResult]_vars
    /\ [][pc = "check_server" /\ probed' = "200" => pc' \in {"upload", "connect"}]_vars
    /\ [][pc = "check_server" /\ pc' = "check_server" =>
            /\ probed' \in {"503", "timeout", "error"}
            /\ tries' = tries + 1]_vars
    /\ [][pc = "check_server" /\ pc' = "done" =>
            /\ tries = COMFY_API_AVAILABLE_MAX_RETRIES
            /\ probed' = probed
            /\ result' = Error("ComfyUI server not reachable after multiple retries")]_vars

\* C16, its case: every probe of the budget failed, the last one with a
\* status other than 200, and the handler gave up
C16_Witness ==
    /\ pc = "done"
    /\ tries = COMFY_API_AVAILABLE_MAX_RETRIES
    /\ probed = "503"
    /\ result = Error("ComfyUI server not reachable after multiple retries")

\* C17: POST /prompt is made only when the payload passed validation, a
\* readiness probe answered 200, every input media item was uploaded and the
\* websocket under this invocation's client id is open; when readiness never
\* comes, or an item failed to upload, the handler returns the error (for
\* uploads with the failure lines as details) with no websocket made and no
\* submission.
C17_SubmitAfterPrerequisites ==
    /\ [](pc = "queue" \/ queued # "none" =>
            /\ ~validate_input(job_input).raised
            /\ validate_input(job_input).error = ""
            /\ input_media = validate_input(job_input).media
            /\ probed = "200"
            /\ upIdx = Len(input_media)
            /\ Len(responses) = Len(input_media)
            /\ upload_errors = <<>>
            /\ client_id \in ClientIds
            /\ ws.made
            /\ ws.url = client_id)
    /\ [](pc = "queue" => ws.connected /\ openSockets = 1)
    /\ [][pc = "check_server" /\ tries = COMFY_API_AVAILABLE_MAX_RETRIES =>
            /\ pc' = "done"
            /\ result'.keys = {"error"}]_vars
    /\ [][pc = "upload" /\ upIdx = Len(input_media) /\ upload_errors # <<>> =>
            /\ pc' = "done"
            /\ result' = ErrorDetails("Failed to upload one or more input media", upload_errors)]_vars
    /\ [](probed \in {"503", "timeout", "error"} \/ upload_errors # <<>> =>
            /\ ws = NoSocket
            /\ openSockets = 0
            /\ client_id = "none"
            /\ queued = "none")

\* C17, its case: two input items were uploaded, the websocket is open, and
\* the submission is due
C17_Witness ==
    /\ pc = "queue"
    /\ Len(input_media) = 2
    /\ Len(responses) = 2
    /\ probed = "200"
    /\ ws.connected
    /\ queued = "none"

\* whether upload_media was called and is over, by a return or otherwise
UploadOver == input_media # <<>> /\ pc \notin {"validate", "check_server", "upload"}

\* C18: upload_media goes through every item of its batch, each item leaves
\* one line, of success or of failure, and the report's status is error
\* exactly when some item left a failure line, with those lines as details.
C18_AggregatesAll ==
    /\ UploadOver =>
          /\ upIdx = Len(input_media)
          /\ \A i \in DOMAIN input_media :
                CountAbout(responses, <<0, i>>) + CountAbout(upload_errors, <<0, i>>) = 1
    /\ pc = "upload" /\ upIdx = Len(input_media) =>
          /\ Report(responses, upload_errors).status = "error" <=> upload_errors # <<>>
          /\ Report(responses, upload_errors).status = "success" <=> upload_errors = <<>>
          /\ upload_errors # <<>> => Report(responses, upload_errors).details = upload_errors

\* C19: the details of the report that upload_media returns have as many
\* entries as the batch has items.
C19_OneLinePerItem ==
    pc = "upload" /\ upIdx = Len(input_media) =>
        Len(Report(responses, upload_errors).details) = Len(input_media)

\* C19, amended: when the loop of upload_media is over, every item has left
\* one line; the details of the report are the failure lines alone, one per
\* failed item, when some item failed, and the success lines, one per item,
\* when none did; and the handler returns the failure lines as its details.
C19_LinesPerOutcome ==
    /\ [](pc = "upload" /\ upIdx = Len(input_media) =>
            LET r == Report(responses, upload_errors)
            IN  /\ Len(responses) + Len(upload_errors) = Len(input_media)
                /\ IF upload_errors # <<>>
                   THEN /\ Len(r.details) = Len(input_media) - Len(responses)
                        /\ \A i \in DOMAIN r.details : r.details[i].kind # "uploaded"
                   ELSE /\ Len(r.details) = Len(input_media)
                        /\ \A i \in DOMAIN r.details : r.details[i].kind = "uploaded")
    /\ [](pc = "done" /\ result.error = "Failed to upload one or more input media" =>
            /\ Len(result.details) = Len(input_media) - Len(responses)
            /\ \A i \in DOMAIN result.details : result.details[i].kind # "uploaded")

\* C19, its case: of a batch of two items one was uploaded and one failed,
\* and the handler returned the one failure line
C19_Witness ==
    /\ pc = "done"
    /\ Len(input_media) = 2
    /\ Len(responses) = 1
    /\ Len(result.details) = 1
    /\ result.error = "Failed to upload one or more input media"

\* C20: a batch whose items all carry a name and a payload that decodes as
\* base64, declared as base64 or with no type declared, and whose staging
\* POSTs the engine all accepted, gets a report of status success.
C20_UntypedAccepted ==
    /\ pc = "upload"
    /\ upIdx = Len(input_media)
    /\ \A i \in DOMAIN input_media :
          /\ input_media[i].t = "dict"
          /\ input_media[i].name
          /\ input_media[i].media
          /\ input_media[i].b64ok
          /\ input_media[i].type \in {"base64", "absent"}
    /\ \A i \in DOMAIN upload_errors : upload_errors[i].kind \notin {"timeout", "request"}
    => Report(responses, upload_errors).status = "success"

\* whether the payload is a document: given as itself, or as a string that
\* decodes
Decodes(p) == p.form \in {"dict", "other"} \/ (p.form = "str" /\ p.json = "valid")

\* validate_input returned no job and this message
Rejected(msg) == pc = "done" /\ result = Error(msg) /\ input_media = <<>>

\* validate_input returned a job with these media and no message
Accepted(items) == pc = "check_server" /\ result = NoResult /\ input_media = items

\* C21: for whatever payload, validate_input returns: either a job and no
\* message or no job and a message, and never raises.
C21_ValidateTotal ==
    pc # "validate" =>
        /\ pc # "raised"
        /\ \/ pc = "done" /\ result.keys = {"error"} /\ result.error # ""
           \/ pc = "check_server" /\ result = NoResult

C23_MalformedMedia ==
    /\ pc # "validate"
    /\ Decodes(job_input)
    /\ job_input.doc.t = "dict"
    /\ job_input.doc.workflow
    /\ job_input.doc.media # "absent"
    => IF \/ job_input.doc.media = "notlist"
          \/ \E i \in DOMAIN job_input.doc.items :
                ~(job_input.doc.items[i].name /\ job_input.doc.items[i].media)
       THEN Rejected("'media' must be a list of objects with 'name' and 'media' keys")
       ELSE Accepted(job_input.doc.items)

C25_MediaXorError ==
    pc = "done" =>
        /\ ("media" \in result.keys) # ("error" \in result.keys)
        /\ ("error" \in result.keys => result.media = <<>>)

\* C25, its case: an artifact was published, then an exception ended the
\* collection, and the handler returned the error alone
C25_Witness ==
    /\ pc = "done"
    /\ output_data # <<>>
    /\ result.keys = {"error"}
    /\ result.media = <<>>

\* C26: the steps of the collection that read no artifact (a node comes up,
\* the images of a node are done with, the nodes are done with) go on with
\* the collection and leave the errors, the media and the result as they
\* are, whatever other keys the node has; and the artifacts of a node with
\* other keys are asked for and published like those of any node.
C26_OtherKeysHarmless ==
    /\ [][(pc \in {"nodes", "images"})
          /\ Artifacts(history'.outputs) = Artifacts(history.outputs)
          => /\ pc' \in {"nodes", "images", "assemble"}
             /\ UNCHANGED <<errors, output_data, fetchLog, result>>]_vars
    /\ [](\A n \in DOMAIN history.outputs : \A k \in DOMAIN history.outputs[n].imgs :
            LET img == history.outputs[n].imgs[k]
            IN  /\ history.outputs[n].other
                /\ img.shape = "dict" /\ img.type # "temp" /\ img.filename
                => /\ CountAbout(fetchLog, <<n, k>>) = 1
                   /\ \A i \in DOMAIN fetchLog :
                         fetchLog[i].at = <<n, k>> /\ fetchLog[i].ok =>
                            \/ Mentions(output_data, <<n, k>>)
                            \/ bucket /\ Mentions(errors, <<n, k>>))

\* C26, its case: the first node had other keys only, the second had other
\* keys and one image, and the handler returned that image and no errors
C26_Witness ==
    /\ pc = "done"
    /\ Len(history.outputs) = 2
    /\ history.outputs[1].other /\ ~history.outputs[1].images
    /\ history.outputs[2].other /\ history.outputs[2].images
    /\ Len(result.media) = 1
    /\ result.media[1].at = <<2, 1>>
    /\ result.keys = {"media"}

\* C27: the correlation state is fixed.  The client id, once drawn, and the
\* prompt id, once returned by the submission, never change; every open
\* websocket of the handler, the first and each one a reconnect yields, was
\* opened under the client id; the submission was made with the client id;
\* the frame that ends the monitoring loop carries the prompt id; and the
\* history that was read is the history of the prompt id.
C27_CorrelationFixed ==
    /\ [][client_id # "none" => client_id' = client_id]_vars
    /\ [][prompt_id # "none" => prompt_id' = prompt_id]_vars
    /\ [][ws_url # "none" => ws_url' = ws_url]_vars
    /\ [](ws.connected => client_id # "none" /\ ws.url = client_id)
    /\ [](queued # "none" => client_id # "none" /\ queuedAs = client_id)
    /\ [][(pc = "recv") /\ pc' = "get_history" =>
             out'.pid = prompt_id /\ prompt_id # "none"]_vars
    /\ [](history.fetched => prompt_id # "none" /\ history.pid = prompt_id)

\* the monitoring loop listens again on a websocket that a reconnect
\* opened, after at least one handshake had failed
C27_Witness ==
    /\ pc = "recv"
    /\ recvEvent = "closed"
    /\ rcTotal > 0
    /\ ws.connected
    /\ ws.url = client_id
    /\ queuedAs = client_id
    /\ prompt_id # "none"

\* the handler is inside _attempt_websocket_reconnect
Reconnecting == pc \in {"rc_probe", "rc_connect"}

\* C28: one run of the reconnect protocol terminates.  It makes at most
\* WEBSOCKET_RECONNECT_ATTEMPTS probes and as many handshakes; inside the
\* function a step can always be taken, and each step that stays inside is
\* one more probe or one more handshake, so the run is over after at most
\* twice the budget of steps; it is left either by returning a new
\* websocket that is connected, or by the exception for a closed
\* connection, which the handler answers with the websocket error and no
\* open websocket.
C28_ReconnectTerminates ==
    /\ [](/\ rcProbes <= WEBSOCKET_RECONNECT_ATTEMPTS
          /\ rcHandshakes <= WEBSOCKET_RECONNECT_ATTEMPTS
          /\ rcHandshakes <= rcProbes)
    /\ [](Reconnecting => ENABLED (Next /\ vars' # vars))
    /\ [][Reconnecting /\ Reconnecting' =>
             rcProbes' + rcHandshakes' = rcProbes + rcHandshakes + 1]_vars
    /\ [][Reconnecting /\ ~Reconnecting' =>
             \/ /\ pc = "rc_connect"
                /\ pc' = "recv"
                /\ ws'.made
                /\ ws'.connected
                /\ openSockets' = 1
                /\ result' = NoResult
             \/ /\ pc' = "done"
                /\ result' = Error("WebSocket communication error")
                /\ ~ws'.connected
                /\ openSockets' = 0]_vars

\* C28, its case: every handshake of a run failed, and the run ended with
\* the exception after as many probes and handshakes as the budget allows
C28_Witness ==
    /\ pc = "done"
    /\ recvEvent = "closed"
    /\ srv_status = "200"
    /\ attempt = WEBSOCKET_RECONNECT_ATTEMPTS
    /\ rcProbes = WEBSOCKET_RECONNECT_ATTEMPTS
    /\ rcHandshakes = WEBSOCKET_RECONNECT_ATTEMPTS
    /\ result = Error("WebSocket communication error")

\* C30: the budget of attempts belongs to one disconnection.  Each run of
\* the protocol starts with its counters at zero; a run gives up without a
\* further probe only when that run itself has used the whole budget, and
\* below it the next probe is made whatever the earlier runs of the job
\* used; and while the handler listens, one more disconnection followed by
\* a recovery is always possible, so their number has no bound.
C30_BudgetPerDisconnection ==
    /\ [][(pc = "recv") /\ pc' = "rc_probe" =>
             attempt' = 0 /\ rcProbes' = 0 /\ rcHandshakes' = 0]_vars
    /\ [][(pc = "rc_probe") /\ pc' = "done" /\ rcProbes' = rcProbes =>
             attempt = WEBSOCKET_RECONNECT_ATTEMPTS]_vars
    /\ [](pc = "rc_probe" /\ attempt < WEBSOCKET_RECONNECT_ATTEMPTS =>
            ENABLED (ReconnectProbe("200") /\ pc' = "rc_connect"))
    /\ [](pc = "rc_connect" =>
            ENABLED (ReconnectHandshake("ok") /\ pc' = "recv" /\ ws'.connected))
    /\ [](pc = "recv" => ENABLED (RecvClosed /\ pc' = "rc_probe"))

\* C30, its case: the handshakes that failed in the disconnections of one
\* job are more than the budget of one run, and the handler has recovered
\* from the last disconnection and listens again
C30_Witness ==
    /\ pc = "recv"
    /\ recvEvent = "closed"
    /\ ws.connected
    /\ rcTotal > WEBSOCKET_RECONNECT_ATTEMPTS
    /\ result = NoResult

\* C29: when the engine finishes the submitted job and every disconnection
\* is recovered, the handler returns a result in the end, also when the
\* engine emitted the terminal event while the websocket was disconnected.
\* Stated for the runs in which the disconnections come to an end, the
\* runs most favourable to the handler.
C29_EventuallyReturns ==
    <>[](recvEvent # "closed") => ((queued = "ok") ~> (pc = "done"))

\* the warning of lines 741-745
NoOutputsWarning == Msg("No outputs found in history", <<0, 0>>)

\* C31: when the monitoring ended with the executing message of completion
\* and the history record of the prompt has empty or missing outputs, the
\* handler records the warning 'No outputs found' itself and returns the
\* failure 'Job processing failed' with that warning as its details;
\* success_no_media is returned only when the outputs mapping had at least
\* one node, no media was collected and no error or warning was recorded.
C31_EmptyOutputsFail ==
    /\ [][(pc = "get_history") /\ execution_done /\ history'.found /\ history'.empty =>
             /\ errors = <<>>
             /\ errors' = <<NoOutputsWarning>>
             /\ pc' = "nodes"]_vars
    /\ [](pc = "done" /\ execution_done /\ history.found /\ history.empty =>
            /\ result.keys = {"error", "details"}
            /\ result.error = "Job processing failed"
            /\ result.details = <<NoOutputsWarning>>
            /\ result.status # "success_no_media")
    /\ [](result.status = "success_no_media" =>
            /\ pc = "done"
            /\ result.keys = {"status", "media"}
            /\ result.media = <<>>
            /\ history.found
            /\ ~history.empty
            /\ Len(history.outputs) >= 1
            /\ output_data = <<>>
            /\ errors = <<>>)

\* C31, its case: the job completed, its history record had no outputs, and
\* the handler returned the failure with the warning
C31_Witness ==
    /\ pc = "done"
    /\ execution_done
    /\ history.found
    /\ history.empty
    /\ result.error = "Job processing failed"
    /\ result.details = <<NoOutputsWarning>>

=============================================================================
